---- MODULE Spec2Model ----
(***************************************************************************)
(* A model of the btree container (src/btree.h, lines 1-397) and of its    *)
(* bidirectional iterator (src/btree_iterator.h, lines 1-162).             *)
(*                                                                         *)
(* Nodes live in a heap keyed by node identity, so that aliasing between   *)
(* trees, parent back-pointers and iterator equality (which compares node  *)
(* pointers) are all observable.  Vectors and stacks are sequences; a      *)
(* C++ index i is position i+1 of the sequence; the top of a stack is the  *)
(* last position.                                                          *)
(***************************************************************************)
EXTENDS Integers, Sequences, FiniteSets, TLC

\* ------------------------------------------------------------------ bounds
MaxElem == 3
MaxCap == 2

Elems == 1..MaxElem
Capacities == 0..MaxCap
\* the tree objects of the client, as test00.cpp holds `tree` and `tree2`
TreeSeq == <<1, 2>>
Trees == {TreeSeq[k] : k \in 1..Len(TreeSeq)}
\* a tree never holds more nodes than elements; a copy assignment holds the
\* temporary copy beside both trees
NodeIds == 1..((Len(TreeSeq) + 1) * MaxElem)
Null == 0

VARIABLES
    heap,     \* node identity -> Node, for every allocated Node
    trees,    \* tree object -> [live, head, maxNodeElems]
    inserted, \* tree object -> the elements inserted into the nodes it owns
    it,       \* the iterator variable of the client
    itTree,   \* the tree `it` was obtained from, 0 when no iterator is held;
              \* the client drops its iterator when it copies or moves a tree
    op,       \* the last operation performed and its arguments / bool result
    status,   \* "ok", or how the process ended
    call      \* the insert call in progress, when it is followed loop
              \* iteration by loop iteration: [active, tree, node, indices, elem]

vars == <<heap, trees, inserted, it, itTree, op, status, call>>

\* ----------------------------------------------------------- small helpers
Min(a, b) == IF a < b THEN a ELSE b

\* std::stack<size_type>: top(), pop(), and assignment through top()
Top(s) == s[Len(s)]
Pop(s) == SubSeq(s, 1, Len(s) - 1)
SetTop(s, v) == [s EXCEPT ![Len(s)] = v]

\* std::vector::insert(begin() + i, x)
\* an insert that puts x behind the last element whatever the position asked
InsertAtBack(s, i, x) == Append(s, x)

InsertAt(s, i, x) == SubSeq(s, 1, i) \o <<x>> \o SubSeq(s, i + 1, Len(s))

\* std::vector<unique_ptr<Node>>::resize(n), n >= size(): pads with nullptr
\* a resize that drops the children the vector holds
ResizeClear(s, n) == [k \in 1..n |-> Null]

\* a resize that creates one slot more than asked for
ResizeOneMore(s, n) == [k \in 1..(n + 1) |-> IF k <= Len(s) THEN s[k] ELSE Null]

Resize(s, n) == [k \in 1..n |-> IF k <= Len(s) THEN s[k] ELSE Null]

\* ------------------------------------------------------------------- Node
\* struct Node { elems; children; parent; }, Node(Node* parent_)
\* a node constructed without its parent
NewNodeOrphan(parent_) == [elems |-> <<>>, children |-> <<>>, parent |-> Null]

NewNode(parent_) == [elems |-> <<>>, children |-> <<>>, parent |-> parent_]

\* std::make_unique<Node>: the allocator hands out an unused identity
NewId(h) == CHOOSE n \in NodeIds \ DOMAIN h : \A m \in NodeIds \ DOMAIN h : n <= m

\* the heap h with node n (new or existing) set to record r
Store(h, n, r) == [x \in DOMAIN h \cup {n} |-> IF x = n THEN r ELSE h[x]]

\* --------------------------------------------------------------- iterator
\* BTreeIterator(Node* node_, stack indices_, Node* endParent_)
Iter(node_, indices_, endParent_) ==
    [node |-> node_, indices |-> indices_, endParent |-> endParent_]

\* results of an operation whose execution is undefined behaviour:
\* a dereference of a null Node*, and a read of top() of an empty stack
UBNullDeref == Iter(-1, <<>>, Null)
UBEmptyTop(endParent_) == Iter(-2, <<>>, endParent_)
IsUB(c) == c.node < 0

\* the value of the client's iterator variable when it holds no iterator
NoIter == Iter(Null, <<>>, Null)

\* bool BTreeIterator::operator==(const BTreeIterator& other)
\* an equality that compares node and indices only
IterEqNoEndParent(a, b) == a.node = b.node /\ a.indices = b.indices

IterEq(a, b) ==
    a.node = b.node /\ a.indices = b.indices /\ a.endParent = b.endParent

\* ----------------------------------------------- operator*, ++ and --
\* reference operator*(): node->elems[indices.top()]; the element, or
\* -1 for a dereference of a null node, -2 for a read outside elems
Deref(h, c) ==
    IF c.node = Null THEN -1
    ELSE IF c.indices = <<>> THEN -2
    ELSE IF Top(c.indices) >= Len(h[c.node].elems) THEN -2
    ELSE h[c.node].elems[Top(c.indices) + 1]

\* while (!node->children.empty() && node->children.at(0)): leftmost descent
RECURSIVE IncDown(_, _, _, _)
\* a ++ that enters the child to the right and does not go on to its leftmost node
IncDownStay(h, node, indices, endParent) == Iter(node, indices, endParent)

IncDown(h, node, indices, endParent) ==
    IF h[node].children # <<>> /\ h[node].children[1] # Null
    THEN IncDown(h, h[node].children[1], Append(indices, 0), endParent)
    ELSE Iter(node, indices, endParent)

\* while (indices.top() == node->elems.size()): go upwards until at a valid
\* elem, or become the end iterator when the root is exhausted
RECURSIVE IncUp(_, _, _, _, _, _)
IncUp(h, node, indices, endParent, originalNode, originalIndices) ==
    IF indices = <<>> THEN UBEmptyTop(endParent)
    ELSE IF Top(indices) = Len(h[node].elems)
    THEN IF h[node].parent = Null
         THEN Iter(Null, originalIndices, originalNode)
         ELSE IncUp(h, h[node].parent, Pop(indices), endParent,
                    originalNode, originalIndices)
    ELSE Iter(node, indices, endParent)

\* BTreeIterator& operator++()
Inc(h, c) ==
    \* an end iterator: whatever top() yields, node->children is a null dereference
    IF c.node = Null THEN UBNullDeref
    ELSE IF c.indices = <<>> THEN UBEmptyTop(c.endParent)
    ELSE LET n == h[c.node]
             t == Top(c.indices)
         IN  IF t + 1 < Len(n.children) /\ n.children[t + 2] # Null
             THEN IncDown(h, n.children[t + 2],
                          Append(SetTop(c.indices, t + 1), 0), c.endParent)
             ELSE IncUp(h, c.node, SetTop(c.indices, t + 1), c.endParent,
                        c.node, c.indices)

\* while (children.size() == elems.size() + 1 && children.at(elems.size())):
\* rightmost descent; pushes the last element index of each node entered and
\* leaves the index pushed for the node it leaves as it is
RECURSIVE DecDown(_, _, _, _)
DecDown(h, node, indices, endParent) ==
    LET n == h[node] IN
    IF Len(n.children) = Len(n.elems) + 1 /\ n.children[Len(n.elems) + 1] # Null
    THEN LET child == n.children[Len(n.elems) + 1] IN
         DecDown(h, child, Append(indices, Len(h[child].elems) - 1), endParent)
    ELSE Iter(node, indices, endParent)

\* while (indices.top() == 0) { indices.pop(); node = node->parent; }
\* --indices.top();
RECURSIVE DecUp(_, _, _, _)
DecUp(h, node, indices, endParent) ==
    IF indices = <<>> THEN UBEmptyTop(endParent)
    ELSE IF Top(indices) = 0
    THEN IF node = Null THEN UBNullDeref
         ELSE DecUp(h, h[node].parent, Pop(indices), endParent)
    ELSE Iter(node, SetTop(indices, Top(indices) - 1), endParent)

\* BTreeIterator& operator--()
Dec(h, c) ==
    IF c.node = Null /\ c.endParent # Null
    THEN Iter(c.endParent, c.indices, Null)
    ELSE IF c.indices = <<>> THEN UBEmptyTop(c.endParent)
    ELSE IF c.node = Null THEN UBNullDeref
    ELSE LET n == h[c.node]
             t == Top(c.indices)
         IN  IF t < Len(n.children) /\ n.children[t + 1] # Null
             THEN LET child == n.children[t + 1] IN
                  DecDown(h, child,
                          Append(c.indices, Len(h[child].elems) - 1), c.endParent)
             ELSE DecUp(h, c.node, c.indices, c.endParent)

\* ------------------------------------------------------------ begin_/end_
RECURSIVE BeginLoop(_, _, _)
BeginLoop(h, node, indices) ==
    IF h[node].children # <<>> /\ h[node].children[1] # Null
    THEN BeginLoop(h, h[node].children[1], Append(indices, 0))
    ELSE Iter(node, Append(indices, 0), Null)

begin_(h, head) ==
    IF head = Null THEN Iter(Null, <<>>, Null)
    ELSE BeginLoop(h, head, <<>>)

RECURSIVE EndLoop(_, _, _)
\* an end_ that stops at the root instead of following the rightmost children
EndLoopRoot(h, node, indices) ==
    Iter(Null, Append(indices, Len(h[node].elems) - 1), node)

EndLoop(h, node, indices) ==
    IF node = Null THEN UBNullDeref
    ELSE IF h[node].children # <<>>
            /\ Len(h[node].elems) = Len(h[node].children) - 1
    THEN EndLoop(h, h[node].children[Len(h[node].elems) + 1],
                 Append(indices, Len(h[node].elems)))
    \* size() - 1 is unsigned; no reachable node is empty, so it never wraps
    ELSE Iter(Null, Append(indices, Len(h[node].elems) - 1), node)

end_(h, head) ==
    IF head = Null THEN Iter(Null, <<>>, Null)
    ELSE EndLoop(h, head, <<>>)

\* ------------------------------------------------------------------ find_
RECURSIVE FindLoop(_, _, _, _, _, _)
\* a search that treats a node without a child at index 0 as having no
\* child at all (i >= children.size() tested as children[0] being absent)
FindLoopNoChild(h, head, node, indices, i, elem) ==
    IF node = Null \/ i > Len(h[node].elems) THEN end_(h, head)
    ELSE IF i = Len(h[node].elems) \/ elem < h[node].elems[i + 1]
    THEN IF i >= Len(h[node].children) \/ h[node].children[1] = Null
         THEN end_(h, head)
         ELSE FindLoop(h, head, h[node].children[i + 1],
                       Append(indices, i), 0, elem)
    ELSE IF h[node].elems[i + 1] = elem
    THEN Iter(node, Append(indices, i), Null)
    ELSE FindLoop(h, head, node, indices, i + 1, elem)

FindLoop(h, head, node, indices, i, elem) ==
    IF node = Null \/ i > Len(h[node].elems) THEN end_(h, head)
    ELSE IF i = Len(h[node].elems) \/ elem < h[node].elems[i + 1]
    THEN IF i >= Len(h[node].children) THEN end_(h, head)
         ELSE FindLoop(h, head, h[node].children[i + 1],
                       Append(indices, i), 0, elem)
    ELSE IF h[node].elems[i + 1] = elem
    THEN Iter(node, Append(indices, i), Null)
    ELSE FindLoop(h, head, node, indices, i + 1, elem)

find_(h, head, elem) == FindLoop(h, head, head, <<>>, 0, elem)

\* ----------------------------------------------------------------- insert
\* the inner while loop of insert: the index of the first element greater
\* than elem, elems.size() if there is none
RECURSIVE InsertIndex(_, _, _)
\* a scan that breaks at once: the new element always goes to the front
InsertIndexFront(elems, elem, i) == i

InsertIndex(elems, elem, i) ==
    IF i < Len(elems) /\ ~(elem < elems[i + 1])
    THEN InsertIndex(elems, elem, i + 1)
    ELSE i

\* one iteration of the outer while (true) loop of insert at `node`, with
\* the indices pushed so far: the element is stored and the iterator
\* returned (done), or the loop goes on in the child `node`
\* an iteration that finds every node saturated and always goes on in a child
InsertIterNoRoom(h, node, indices, elem, maxNodeElems) ==
    LET n == h[node]
        i == InsertIndex(n.elems, elem, 0)
        resized == IF i >= Len(n.children) THEN Resize(n.children, i + 1)
                   ELSE n.children
        fresh == resized[i + 1] = Null
        child == IF fresh THEN NewId(h) ELSE resized[i + 1]
        h1 == Store(h, node,
                    [n EXCEPT !.children = [resized EXCEPT ![i + 1] = child]])
        h2 == IF fresh THEN Store(h1, child, NewNode(node)) ELSE h1
    IN  [done |-> FALSE, heap |-> h2, node |-> child,
         indices |-> Append(indices, i), it |-> NoIter]

InsertIter(h, node, indices, elem, maxNodeElems) ==
    LET n == h[node]
        i == InsertIndex(n.elems, elem, 0)
        \* childrenIt advances with elemIt until it reaches children.end()
        ci == Min(i, Len(n.children))
        pushed == Append(indices, i)
    IN  IF Len(n.elems) < maxNodeElems
        THEN LET elems2 == InsertAt(n.elems, i, elem)
                 children2 == IF ci # Len(n.children)
                              THEN InsertAt(n.children, ci, Null)
                              ELSE n.children
             IN  [done |-> TRUE,
                  heap |-> Store(h, node, [n EXCEPT !.elems = elems2,
                                                    !.children = children2]),
                  node |-> node, indices |-> pushed,
                  it |-> Iter(node, pushed, Null)]
        ELSE LET resized == IF i >= Len(n.children)
                            THEN Resize(n.children, i + 1)
                            ELSE n.children
                 fresh == resized[i + 1] = Null
                 child == IF fresh THEN NewId(h) ELSE resized[i + 1]
                 h1 == Store(h, node,
                             [n EXCEPT !.children = [resized EXCEPT ![i + 1] = child]])
                 h2 == IF fresh THEN Store(h1, child, NewNode(node)) ELSE h1
             IN  [done |-> FALSE, heap |-> h2, node |-> child,
                  indices |-> pushed, it |-> NoIter]

\* the outer while (true) loop of insert, from `node` on with the indices
\* pushed so far; returns the new heap and the returned iterator
RECURSIVE InsertLoop(_, _, _, _, _)
InsertLoop(h, node, indices, elem, maxNodeElems) ==
    LET r == InsertIter(h, node, indices, elem, maxNodeElems) IN
    IF r.done THEN [heap |-> r.heap, it |-> r.it]
    ELSE InsertLoop(r.heap, r.node, r.indices, elem, maxNodeElems)

\* pair<iterator, bool> btree::insert(const T& elem), for a tree whose
\* maxNodeElems is not 0: [heap, head, it, second]
insert(h, head, maxNodeElems, elem) ==
    LET found == find_(h, head, elem) IN
    IF ~IterEq(found, end_(h, head))
    THEN [heap |-> h, head |-> head, it |-> found, second |-> FALSE]
    ELSE LET head2 == IF head = Null THEN NewId(h) ELSE head
             h1 == IF head = Null THEN Store(h, head2, NewNode(Null)) ELSE h
             r == InsertLoop(h1, head2, <<>>, elem, maxNodeElems)
         IN  [heap |-> r.heap, head |-> head2, it |-> r.it, second |-> TRUE]

\* ------------------------------------------------------- copy and free
\* Node(const Node& original, Node* parent_), called by make_unique<Node>:
\* the new node is allocated, then its children are copied in order, each
\* with the new node as its parent.  [heap, node]
RECURSIVE CopyNode(_, _, _)
RECURSIVE CopyChildren(_, _, _, _)
\* a copy that duplicates the node and shares the children of the original
CopyNodeShallow(h, original, parent_) ==
    LET this == NewId(h) IN
    [heap |-> Store(h, this, [h[original] EXCEPT !.parent = parent_]),
     node |-> this]

CopyNode(h, original, parent_) ==
    LET this == NewId(h)
        h1 == Store(h, this, [elems |-> h[original].elems, children |-> <<>>,
                              parent |-> parent_])
    IN  CopyChildren(h1, original, 1, this)

CopyChildren(h, original, k, this) ==
    IF k > Len(h[original].children) THEN [heap |-> h, node |-> this]
    ELSE LET child == h[original].children[k] IN
         IF child # Null
         THEN LET r == CopyNode(h, child, this) IN
              CopyChildren(Store(r.heap, this,
                                 [r.heap[this] EXCEPT !.children = Append(@, r.node)]),
                           original, k + 1, this)
         ELSE CopyChildren(Store(h, this, [h[this] EXCEPT !.children = Append(@, Null)]),
                           original, k + 1, this)

\* the nodes owned (transitively, through children) by `node`
RECURSIVE Owned(_, _)
Owned(h, node) ==
    IF node = Null \/ node \notin DOMAIN h THEN {}
    ELSE {node} \cup UNION {Owned(h, h[node].children[k]) : k \in 1..Len(h[node].children)}

\* ~unique_ptr<Node>: releases the node and everything it owns
Free(h, node) == [x \in DOMAIN h \ Owned(h, node) |-> h[x]]

\* ------------------------------------------------------ node identities
\* A node's address carries no meaning beyond equality of pointers, so every
\* operation leaves the heap with its nodes renamed 1, 2, ... in the order
\* its trees own them (tree 1 first, each tree in preorder); every pointer
\* of the state (parent, children, head, the client's iterator) is renamed
\* with them.
RECURSIVE Preorder(_, _)
RECURSIVE PreorderChildren(_, _, _)
Preorder(h, node) ==
    IF node = Null THEN <<>>
    ELSE <<node>> \o PreorderChildren(h, h[node].children, 1)

PreorderChildren(h, children, k) ==
    IF k > Len(children) THEN <<>>
    ELSE Preorder(h, children[k]) \o PreorderChildren(h, children, k + 1)

RECURSIVE Dedup(_, _)
Dedup(seq, seen) ==
    IF seq = <<>> THEN <<>>
    ELSE IF Head(seq) \in seen THEN Dedup(Tail(seq), seen)
    ELSE <<Head(seq)>> \o Dedup(Tail(seq), seen \cup {Head(seq)})

RECURSIVE OwnedInOrder(_, _, _)
OwnedInOrder(h, tr, k) ==
    IF k > Len(TreeSeq) THEN <<>>
    ELSE Preorder(h, tr[TreeSeq[k]].head) \o OwnedInOrder(h, tr, k + 1)

Settle(h, tr, c) ==
    LET order == Dedup(OwnedInOrder(h, tr, 1), {})
        name(n) == IF n = Null THEN Null
                   ELSE CHOOSE k \in 1..Len(order) : order[k] = n
    IN  [heap |-> [k \in 1..Len(order) |->
                     [elems |-> h[order[k]].elems,
                      children |-> [j \in 1..Len(h[order[k]].children) |->
                                      name(h[order[k]].children[j])],
                      parent |-> name(h[order[k]].parent)]],
         trees |-> [t \in Trees |-> [tr[t] EXCEPT !.head = name(@)]],
         it |-> [c EXCEPT !.node = name(@), !.endParent = name(@)]]

\* ------------------------------------------------------------ operator<<
Space == 0

\* the children of `node` that are pushed on the queue, in order
RECURSIVE PresentChildren(_, _)
PresentChildren(children, k) ==
    IF k > Len(children) THEN <<>>
    ELSE (IF children[k] # Null THEN <<children[k]>> ELSE <<>>)
         \o PresentChildren(children, k + 1)

\* what one node prints: each elem, and a space after it if it is not the
\* last elem or the queue holds more than the node itself
PrintElems(elems, queueSize) ==
    LET tok(i) == IF i < Len(elems) - 1 \/ queueSize > 1
                  THEN <<elems[i + 1], Space>> ELSE <<elems[i + 1]>>
        F[i \in 0..Len(elems)] == IF i = Len(elems) THEN <<>> ELSE tok(i) \o F[i + 1]
    IN  F[0]

RECURSIVE DumpLoop(_, _, _)
DumpLoop(h, queue, os) ==
    IF queue = <<>> THEN os
    ELSE LET front == h[queue[1]]
             queue2 == queue \o PresentChildren(front.children, 1)
         IN  DumpLoop(h, Tail(queue2), os \o PrintElems(front.elems, Len(queue2)))

\* std::ostream& operator<<(std::ostream& os, const btree<T>& tree): the
\* characters written, an element or Space each
Dump(h, head) == DumpLoop(h, IF head # Null THEN <<head>> ELSE <<>>, <<>>)

\* ------------------------------------------------------------ operations
OpRec(name_, tree_, other_, elem_, second_) ==
    [name |-> name_, tree |-> tree_, other |-> other_, elem |-> elem_,
     second |-> second_]

Live(t) == trees[t].live
TreeRec(head_, maxNodeElems_) ==
    [live |-> TRUE, head |-> head_, maxNodeElems |-> maxNodeElems_]

\* friend void swap(btree& a, btree& b): swaps head and maxNodeElems; the
\* two tree objects after the call
\* a swap that hands a's head to b and leaves a's head in place
swapKeepHead(a, b) ==
    [a |-> [a EXCEPT !.maxNodeElems = b.maxNodeElems],
     b |-> [b EXCEPT !.head = a.head, !.maxNodeElems = a.maxNodeElems]]

swap(a, b) ==
    [a |-> [a EXCEPT !.head = b.head, !.maxNodeElems = b.maxNodeElems],
     b |-> [b EXCEPT !.head = a.head, !.maxNodeElems = a.maxNodeElems]]

\* how a process ends on a dereference of a null raw pointer, of a null
\* unique_ptr (a hardened standard library asserts), and on top() of an
\* empty stack when it does not get away with the garbage it reads
RawNullOutcomes == {"segfault"}
SmartNullOutcomes == {"segfault", "abort"}
EmptyTopOutcomes == {"segfault", "abort"}

\* no insert call is in progress
NoCall ==
    [active |-> FALSE, tree |-> 0, node |-> Null, indices |-> <<>>, elem |-> 0]

\* btree(size_type maxNodeElems_): the state after construction of tree 1
Init ==
    /\ heap = <<>>
    /\ \E c \in Capacities :
         trees = [t \in Trees |->
                    IF t = 1 THEN TreeRec(Null, c)
                    ELSE [live |-> FALSE, head |-> Null, maxNodeElems |-> 0]]
    /\ inserted = [t \in Trees |-> {}]
    /\ it = NoIter
    /\ itTree = 0
    /\ op = OpRec("construct", 1, 0, 0, FALSE)
    /\ status = "ok"
    /\ call = NoCall

\* btree(size_type maxNodeElems_) for a further tree object
Construct(u, c) ==
    /\ status = "ok" /\ ~Live(u)
    /\ UNCHANGED call
    /\ trees' = [trees EXCEPT ![u] = TreeRec(Null, c)]
    /\ inserted' = [inserted EXCEPT ![u] = {}]
    /\ op' = OpRec("construct", u, 0, 0, FALSE)
    /\ UNCHANGED <<heap, it, itTree, status>>

\* tree.insert(elem).  With maxNodeElems = 0 no node is ever unsaturated
\* (size() < 0 is false for unsigned), so the while (true) loop of an insert
\* of an absent element allocates child after child and never returns.
Insert(t, e) ==
    /\ status = "ok" /\ Live(t)
    /\ UNCHANGED call
    /\ LET found == find_(heap, trees[t].head, e) IN
       IF trees[t].maxNodeElems = 0 /\ IterEq(found, end_(heap, trees[t].head))
       THEN /\ status' = "diverged"
            /\ op' = OpRec("insert", t, 0, e, FALSE)
            /\ UNCHANGED <<heap, trees, inserted, it, itTree>>
       ELSE LET r == insert(heap, trees[t].head, trees[t].maxNodeElems, e)
                s == Settle(r.heap, [trees EXCEPT ![t].head = r.head], r.it)
            IN
            /\ heap' = s.heap
            /\ trees' = s.trees
            /\ inserted' = [inserted EXCEPT ![t] = @ \cup {e}]
            /\ it' = s.it
            /\ itTree' = t
            /\ op' = OpRec("insert", t, 0, e, r.second)
            /\ UNCHANGED status

\* it = tree.find(elem)
Find(t, e) ==
    /\ status = "ok" /\ Live(t)
    /\ UNCHANGED call
    /\ it' = find_(heap, trees[t].head, e)
    /\ itTree' = t
    /\ op' = OpRec("find", t, 0, e, FALSE)
    /\ UNCHANGED <<heap, trees, inserted, status>>

\* it = tree.begin()
Begin(t) ==
    /\ status = "ok" /\ Live(t)
    /\ UNCHANGED call
    /\ it' = begin_(heap, trees[t].head)
    /\ itTree' = t
    /\ op' = OpRec("begin", t, 0, 0, FALSE)
    /\ UNCHANGED <<heap, trees, inserted, status>>

\* it = tree.end()
End(t) ==
    /\ status = "ok" /\ Live(t)
    /\ UNCHANGED call
    /\ it' = end_(heap, trees[t].head)
    /\ itTree' = t
    /\ op' = OpRec("end", t, 0, 0, FALSE)
    /\ UNCHANGED <<heap, trees, inserted, status>>

\* ++it
Increment ==
    /\ status = "ok" /\ itTree # 0
    /\ UNCHANGED call
    /\ op' = OpRec("inc", itTree, 0, 0, FALSE)
    /\ LET r == Inc(heap, it) IN
       \/ /\ ~IsUB(r)
          /\ it' = r
          /\ UNCHANGED status
       \/ /\ IsUB(r)
          /\ status' \in (IF r = UBNullDeref THEN RawNullOutcomes ELSE EmptyTopOutcomes)
          /\ UNCHANGED it
    /\ UNCHANGED <<heap, trees, inserted, itTree>>

\* --it.  Before begin() the walk upwards pops the last index, sets node to
\* the root's null parent and reads top() of the empty stack: the process
\* ends, or the garbage read is not 0 and the iterator is left with a null
\* node and no index.
Decrement ==
    /\ status = "ok" /\ itTree # 0
    /\ UNCHANGED call
    /\ op' = OpRec("dec", itTree, 0, 0, FALSE)
    /\ LET r == Dec(heap, it) IN
       \/ /\ ~IsUB(r)
          /\ it' = r
          /\ UNCHANGED status
       \/ /\ IsUB(r)
          /\ status' \in (IF r = UBNullDeref THEN RawNullOutcomes ELSE EmptyTopOutcomes)
          /\ UNCHANGED it
       \/ /\ IsUB(r) /\ r # UBNullDeref
          /\ it' = Iter(Null, <<>>, r.endParent)
          /\ UNCHANGED status
    /\ UNCHANGED <<heap, trees, inserted, itTree>>

\* *it.  With a null node the read of node->elems is a null dereference;
\* with no index on the stack top() is read from an empty stack first.
Dereference ==
    /\ status = "ok" /\ itTree # 0
    /\ UNCHANGED call
    /\ LET v == Deref(heap, it) IN
       \/ /\ v >= 0
          /\ op' = OpRec("deref", itTree, 0, v, FALSE)
          /\ UNCHANGED status
       \/ /\ v < 0
          /\ op' = OpRec("deref", itTree, 0, 0, FALSE)
          /\ status' \in (IF it.indices = <<>> THEN EmptyTopOutcomes
                          ELSE RawNullOutcomes)
    /\ UNCHANGED <<heap, trees, inserted, it, itTree>>

\* std::cout << tree
Output(t) ==
    /\ status = "ok" /\ Live(t)
    /\ UNCHANGED call
    /\ op' = OpRec("dump", t, 0, Len(Dump(heap, trees[t].head)), FALSE)
    /\ UNCHANGED <<heap, trees, inserted, it, itTree, status>>

\* btree(const btree& original), for a tree object u not yet constructed.
\* *original.head of an empty original dereferences a null unique_ptr.
CopyConstruct(u, t) ==
    /\ status = "ok" /\ ~Live(u) /\ Live(t)
    /\ UNCHANGED call
    /\ op' = OpRec("copyConstruct", u, t, 0, FALSE)
    /\ IF trees[t].head = Null
       THEN /\ status' \in SmartNullOutcomes
            /\ UNCHANGED <<heap, trees, inserted>>
       ELSE LET r == CopyNode(heap, trees[t].head, Null)
                s == Settle(r.heap,
                            [trees EXCEPT ![u] = TreeRec(r.node, trees[t].maxNodeElems)],
                            NoIter)
            IN
            /\ heap' = s.heap
            /\ trees' = s.trees
            /\ inserted' = [inserted EXCEPT ![u] = inserted[t]]
            /\ UNCHANGED status
    /\ it' = NoIter /\ itTree' = 0

\* btree(btree&& original), for a tree object u not yet constructed:
\* maxNodeElems{original.maxNodeElems}, head null, then swap(original, *this)
MoveConstruct(u, t) ==
    /\ status = "ok" /\ ~Live(u) /\ Live(t)
    /\ UNCHANGED call
    /\ op' = OpRec("moveConstruct", u, t, 0, FALSE)
    /\ LET sw == swap(trees[t], TreeRec(Null, trees[t].maxNodeElems))
           s == Settle(heap, [trees EXCEPT ![t] = sw.a, ![u] = sw.b], NoIter)
       IN  heap' = s.heap /\ trees' = s.trees
    /\ inserted' = [inserted EXCEPT ![u] = inserted[t], ![t] = {}]
    /\ it' = NoIter /\ itTree' = 0
    /\ UNCHANGED status

\* btree& operator=(const btree& rhs): btree tmp = rhs; swap(tmp, *this);
\* and tmp, now holding the old contents of *this, is destroyed
CopyAssign(u, t) ==
    /\ status = "ok" /\ Live(u) /\ Live(t)
    /\ UNCHANGED call
    /\ op' = OpRec("copyAssign", u, t, 0, FALSE)
    /\ IF trees[t].head = Null
       THEN /\ status' \in SmartNullOutcomes
            /\ UNCHANGED <<heap, trees, inserted>>
       ELSE LET r == CopyNode(heap, trees[t].head, Null)
                sw == swap(TreeRec(r.node, trees[t].maxNodeElems), trees[u])
                \* sw.a is tmp, destroyed at the end of the call
                s == Settle(Free(r.heap, sw.a.head), [trees EXCEPT ![u] = sw.b],
                            NoIter)
            IN
            /\ heap' = s.heap
            /\ trees' = s.trees
            /\ inserted' = [inserted EXCEPT ![u] = inserted[t]]
            /\ UNCHANGED status
    /\ it' = NoIter /\ itTree' = 0

\* btree& operator=(btree&& rhs): maxNodeElems = rhs.maxNodeElems;
\* swap(rhs, *this), which swaps the heads and the (now equal) capacities
MoveAssign(u, t) ==
    /\ status = "ok" /\ Live(u) /\ Live(t)
    /\ UNCHANGED call
    /\ op' = OpRec("moveAssign", u, t, 0, FALSE)
    /\ LET assigned == [trees EXCEPT ![u].maxNodeElems = trees[t].maxNodeElems]
           sw == swap(assigned[t], assigned[u])
           s == Settle(heap, [assigned EXCEPT ![t] = sw.a, ![u] = sw.b], NoIter)
       IN  heap' = s.heap /\ trees' = s.trees
    /\ inserted' = [inserted EXCEPT ![u] = inserted[t], ![t] = inserted[u]]
    /\ it' = NoIter /\ itTree' = 0
    /\ UNCHANGED status

\* a client that only inserts into, searches and walks one tree
NextInsert ==
    \/ \E e \in Elems : Insert(1, e)
    \/ \E e \in Elems : Find(1, e)
    \/ Begin(1)
    \/ End(1)
    \/ Increment
    \/ Decrement
    \/ Dereference
    \/ Output(1)

SpecInsert == Init /\ [][NextInsert]_vars

Next ==
    \/ \E t \in Trees, e \in Elems : Insert(t, e)
    \/ \E u \in Trees, c \in Capacities : Construct(u, c)
    \/ \E u, t \in Trees : CopyConstruct(u, t)
    \/ \E u, t \in Trees : MoveConstruct(u, t)
    \/ \E u, t \in Trees : CopyAssign(u, t)
    \/ \E u, t \in Trees : MoveAssign(u, t)

Spec == Init /\ [][Next]_vars

\* ------------------------------------------- insert, iteration by iteration
\* tree.insert(elem) up to its loop: the early return for an element that
\* is found, or the creation of the head of an empty tree and the entry
\* into the while (true) loop at the head
InsertCall(t, e) ==
    /\ status = "ok" /\ ~call.active /\ Live(t)
    /\ LET found == find_(heap, trees[t].head, e) IN
       IF ~IterEq(found, end_(heap, trees[t].head))
       THEN /\ it' = found
            /\ itTree' = t
            /\ op' = OpRec("insert", t, 0, e, FALSE)
            /\ UNCHANGED <<heap, trees, call>>
       ELSE LET head2 == IF trees[t].head = Null THEN NewId(heap)
                         ELSE trees[t].head
            IN
            /\ heap' = (IF trees[t].head = Null
                        THEN Store(heap, head2, NewNode(Null)) ELSE heap)
            /\ trees' = [trees EXCEPT ![t].head = head2]
            /\ call' = [active |-> TRUE, tree |-> t, node |-> head2,
                        indices |-> <<>>, elem |-> e]
            /\ op' = OpRec("insertCall", t, 0, e, FALSE)
            /\ UNCHANGED <<it, itTree>>
    /\ UNCHANGED <<inserted, status>>

\* one iteration of the while (true) loop of the call in progress: it stores
\* the element and returns, or goes on in a child.  The allocator of the
\* model has NodeIds to hand out; a loop that asks for more has diverged.
InsertStep ==
    /\ status = "ok" /\ call.active
    /\ IF DOMAIN heap = NodeIds
       THEN /\ status' = "diverged"
            /\ UNCHANGED <<heap, trees, inserted, it, itTree, op, call>>
       ELSE LET t == call.tree
                r == InsertIter(heap, call.node, call.indices, call.elem,
                                trees[t].maxNodeElems)
            IN  IF r.done
                THEN LET s == Settle(r.heap, trees, r.it) IN
                     /\ heap' = s.heap
                     /\ trees' = s.trees
                     /\ inserted' = [inserted EXCEPT ![t] = @ \cup {call.elem}]
                     /\ it' = s.it
                     /\ itTree' = t
                     /\ op' = OpRec("insert", t, 0, call.elem, TRUE)
                     /\ call' = NoCall
                     /\ UNCHANGED status
                ELSE /\ heap' = r.heap
                     /\ call' = [call EXCEPT !.node = r.node, !.indices = r.indices]
                     /\ UNCHANGED <<trees, inserted, it, itTree, op, status>>

\* a client that inserts into one tree; a call that has entered its loop
\* keeps running
NextSteps ==
    \/ \E e \in Elems : InsertCall(1, e)
    \/ InsertStep

SpecSteps == Init /\ [][NextSteps]_vars /\ WF_vars(InsertStep)

\* ======================================================================
\* Observations used by the properties
\* ======================================================================

\* for (it = begin(); it != end(); ++it) collect *it: [ok, seq]; ok is FALSE
\* when a step is undefined or the loop makes more steps than there are
\* elements to hold
RECURSIVE Walk(_, _, _, _, _)
Walk(h, c, last, fuel, seq) ==
    IF IsUB(c) \/ IsUB(last) THEN [ok |-> FALSE, seq |-> seq]
    ELSE IF IterEq(c, last) THEN [ok |-> TRUE, seq |-> seq]
    ELSE IF fuel = 0 \/ Deref(h, c) < 0 THEN [ok |-> FALSE, seq |-> seq]
    ELSE Walk(h, Inc(h, c), last, fuel - 1, Append(seq, Deref(h, c)))

Traversal(h, head) == Walk(h, begin_(h, head), end_(h, head), MaxElem + 1, <<>>)

StrictlyIncreasing(seq) == \A i \in 1..(Len(seq) - 1) : seq[i] < seq[i + 1]
Range(seq) == {seq[i] : i \in 1..Len(seq)}

\* the node structure below `node`, free of node identities: the elems and,
\* per child slot, <<>> for an absent child or <<structure>> for a present one
RECURSIVE Shape(_, _)
Shape(h, node) ==
    [elems |-> h[node].elems,
     children |-> [k \in 1..Len(h[node].children) |->
                     IF h[node].children[k] = Null THEN <<>>
                     ELSE <<Shape(h, h[node].children[k])>>]]

TreeShape(h, head) == IF head = Null THEN <<>> ELSE <<Shape(h, head)>>

\* the elements stored in the nodes the tree owns
Stored(h, head) == UNION {Range(h[n].elems) : n \in Owned(h, head)}

\* everything a client can observe of a tree
Observed(h, tr) ==
    [traversal |-> Traversal(h, tr.head), shape |-> TreeShape(h, tr.head),
     dump |-> Dump(h, tr.head), maxNodeElems |-> tr.maxNodeElems]

Depth2(h, head) == head # Null /\ \E k \in 1..Len(h[head].children) : h[head].children[k] # Null

\* ======================================================================
\* Properties
\* ======================================================================

\* C1: for every capacity >= 1 and every sequence of inserts into an
\* initially empty tree, the walk from begin() by ++ up to end() yields the
\* elements in strictly increasing order.
C1_OrderInvariant ==
    (status = "ok" /\ trees[1].maxNodeElems >= 1) =>
        LET tr == Traversal(heap, trees[1].head) IN
        tr.ok /\ StrictlyIncreasing(tr.seq)

C1_Witness ==
    /\ status = "ok" /\ op.name = "insert" /\ op.second
    /\ Depth2(heap, trees[1].head)
    /\ Len(Traversal(heap, trees[1].head).seq) = MaxElem

\* C2: for a tree built by inserts that holds n distinct elements, ++ applied
\* n times to begin() reaches end() and not earlier, and the n values
\* dereferenced are exactly the inserted elements, each once; begin() == end()
\* when n = 0.
C2_TraversalComplete ==
    (status = "ok" /\ trees[1].maxNodeElems >= 1) =>
        LET tr == Traversal(heap, trees[1].head)
            n == Cardinality(inserted[1])
        IN  /\ tr.ok
            /\ Len(tr.seq) = n
            /\ Range(tr.seq) = inserted[1]
            /\ (n = 0 => IterEq(begin_(heap, trees[1].head), end_(heap, trees[1].head)))

C2_Witness ==
    /\ status = "ok" /\ Cardinality(inserted[1]) = MaxElem
    /\ Depth2(heap, trees[1].head)
    /\ op.name = "inc" /\ IterEq(it, end_(heap, trees[1].head))

\* C3: insert(e) on a tree (of capacity >= 1) that already holds e returns
\* false and an iterator that dereferences to e, and leaves the tree as it
\* was: same traversal, same nodes, same dump.
C3_InsertExisting ==
    [][\A t \in Trees, e \in Elems :
         (Insert(t, e) /\ trees[t].maxNodeElems >= 1 /\ e \in inserted[t]) =>
            /\ status' = "ok"
            /\ ~op'.second
            /\ Deref(heap', it') = e
            /\ heap' = heap /\ trees' = trees
            /\ Observed(heap', trees'[t]) = Observed(heap, trees[t])]_vars

\* C4: in a tree built by inserts, find(e) of an inserted e is not end() and
\* dereferences to e, and find(e) of an e never inserted is end().
C4_FindConsistency ==
    (status = "ok" /\ trees[1].maxNodeElems >= 1) =>
        \A e \in Elems :
            LET f == find_(heap, trees[1].head, e)
                last == end_(heap, trees[1].head)
            IN  IF e \in inserted[1]
                THEN ~IterEq(f, last) /\ Deref(heap, f) = e
                ELSE IterEq(f, last)

C4_Witness ==
    /\ status = "ok" /\ op.name = "find" /\ op.elem \in inserted[1]
    /\ Len(it.indices) >= 2 /\ it.node # Null
    /\ inserted[1] # Elems

\* C5: insert(e) on a tree (of capacity >= 1) returns true exactly when e was
\* absent before the call, and then the iterator returned dereferences to e
\* and equals find(e) made right after.
C5_InsertAbsent ==
    [][\A t \in Trees, e \in Elems :
         (Insert(t, e) /\ trees[t].maxNodeElems >= 1) =>
            /\ status' = "ok"
            /\ op'.second <=> (e \notin inserted[t])
            /\ Deref(heap', it') = e
            /\ IterEq(it', find_(heap', trees'[t].head, e))]_vars

\* C6: copy construction and copy assignment from any tree (of capacity
\* >= 1), an empty or moved-from one included, complete and give the copy
\* the traversal, the dump and the capacity of the original.
C6_CopyRoundTrip ==
    [][\A u, t \in Trees :
         ((CopyConstruct(u, t) \/ CopyAssign(u, t)) /\ trees[t].maxNodeElems >= 1) =>
            /\ status' = "ok"
            /\ Traversal(heap', trees'[u].head) = Traversal(heap, trees[t].head)
            /\ Dump(heap', trees'[u].head) = Dump(heap, trees[t].head)
            /\ trees'[u].maxNodeElems = trees[t].maxNodeElems]_vars

\* C7: a copy shares no node with its original (no two trees ever own a
\* common node), and an insert into one tree leaves the traversal, the node
\* structure and the dump of every other tree unchanged.
Disjoint ==
    \A t, u \in Trees :
        t # u => Owned(heap, trees[t].head) \cap Owned(heap, trees[u].head) = {}

C7_CopyIndependent ==
    [][/\ Disjoint'
       /\ \A t \in Trees, e \in Elems :
            Insert(t, e) =>
                \A u \in Trees \ {t} :
                    Observed(heap', trees'[u]) = Observed(heap, trees[u])]_vars

C7_Witness ==
    /\ status = "ok" /\ op.name = "insert" /\ op.second
    /\ \E u \in Trees \ {op.tree} :
         /\ Depth2(heap, trees[u].head)
         /\ inserted[u] # inserted[op.tree]
         /\ inserted[u] \subseteq inserted[op.tree]
         /\ Depth2(heap, trees[op.tree].head)

\* C8: after the move construction U = move(T), T is empty (begin() == end(),
\* empty dump) and U has the traversal and the dump T had before.
C8_MoveConstruct ==
    [][\A u, t \in Trees :
         MoveConstruct(u, t) =>
            /\ status' = "ok"
            /\ IterEq(begin_(heap', trees'[t].head), end_(heap', trees'[t].head))
            /\ Dump(heap', trees'[t].head) = <<>>
            /\ Traversal(heap', trees'[t].head).seq = <<>>
            /\ Traversal(heap', trees'[u].head) = Traversal(heap, trees[t].head)
            /\ Dump(heap', trees'[u].head) = Dump(heap, trees[t].head)]_vars

C8_Witness ==
    /\ status = "ok" /\ op.name = "moveConstruct"
    /\ Depth2(heap, trees[op.tree].head)
    /\ Len(Traversal(heap, trees[op.tree].head).seq) = MaxElem
    /\ trees[op.other].head = Null

\* C9: after the move assignment U = move(T) between two trees (of
\* capacity >= 1), whatever U held, T is empty (begin() == end(), empty dump)
\* and U has the traversal T had before.
C9_MoveAssign ==
    [][\A u, t \in Trees :
         (MoveAssign(u, t) /\ u # t
            /\ trees[u].maxNodeElems >= 1 /\ trees[t].maxNodeElems >= 1) =>
            /\ status' = "ok"
            /\ IterEq(begin_(heap', trees'[t].head), end_(heap', trees'[t].head))
            /\ Dump(heap', trees'[t].head) = <<>>
            /\ Traversal(heap', trees'[u].head) = Traversal(heap, trees[t].head)]_vars

\* C10: in a tree built by inserts, for every iterator at an element,
\* --(++it) == it and, unless it is begin(), ++(--it) == it.
C10_IncDecInverse ==
    (status = "ok" /\ trees[1].maxNodeElems >= 1) =>
        \A e \in inserted[1] :
            LET c == find_(heap, trees[1].head, e) IN
            /\ IterEq(Dec(heap, Inc(heap, c)), c)
            /\ ~IterEq(c, begin_(heap, trees[1].head))
                  => IterEq(Inc(heap, Dec(heap, c)), c)

\* the greatest element of a non-empty set
MaxOf(S) == CHOOSE x \in S : \A y \in S : y <= x

\* the position reached from c by ++ just before ++ leaves the elements
RECURSIVE LastFrom(_, _, _)
LastFrom(h, c, fuel) ==
    LET n == Inc(h, c) IN
    IF fuel = 0 \/ IsUB(n) \/ n.node = Null THEN c
    ELSE LastFrom(h, n, fuel - 1)

\* C11: in a non-empty tree built by inserts, -- applied to end(), whether
\* end() was obtained directly or by ++ from the last element, gives an
\* iterator that dereferences to the maximum element and equals find(maximum).
C11_DecFromEnd ==
    (status = "ok" /\ trees[1].maxNodeElems >= 1 /\ inserted[1] # {}) =>
        LET head == trees[1].head
            mx == MaxOf(inserted[1])
            direct == Dec(heap, end_(heap, head))
            last == LastFrom(heap, begin_(heap, head), MaxElem)
            stepped == Dec(heap, Inc(heap, last))
        IN  /\ Deref(heap, direct) = mx
            /\ IterEq(direct, find_(heap, head, mx))
            /\ Inc(heap, last).node = Null /\ ~IsUB(Inc(heap, last))
            /\ Deref(heap, stepped) = mx
            /\ IterEq(stepped, find_(heap, head, mx))

C11_Witness ==
    /\ status = "ok" /\ op.name = "dec"
    /\ Cardinality(inserted[1]) = MaxElem
    /\ Len(it.indices) >= 2
    /\ Deref(heap, it) = MaxOf(inserted[1])
    /\ IterEq(it, Dec(heap, end_(heap, trees[1].head)))

\* ------------------------------------------- read-only and reverse iterators
\* operator BTreeIterator<const T>(): a new iterator built from the three
\* fields of the mutable one
\* a conversion through the two-argument constructor, which sets endParent
\* to nullptr
ConstIterNoEndParent(c) == Iter(c.node, c.indices, Null)

ConstIter(c) == Iter(c.node, c.indices, c.endParent)

\* const_iterator cbegin() / cend(): static_cast<const_iterator>(begin_() / end_())
cbegin(h, head) == ConstIter(begin_(h, head))
cend(h, head) == ConstIter(end_(h, head))

\* for (auto it = first; it != last; ++it) collect *it, for
\* std::reverse_iterator: `base` is the wrapped iterator, *it is *--copy of
\* base, ++it is --base and it != last compares the bases
RECURSIVE ReverseWalk(_, _, _, _, _)
ReverseWalk(h, base, lastBase, fuel, seq) ==
    IF IsUB(base) \/ IsUB(lastBase) THEN [ok |-> FALSE, seq |-> seq]
    ELSE IF IterEq(base, lastBase) THEN [ok |-> TRUE, seq |-> seq]
    ELSE IF fuel = 0 \/ IsUB(Dec(h, base)) \/ Deref(h, Dec(h, base)) < 0
    THEN [ok |-> FALSE, seq |-> seq]
    ELSE ReverseWalk(h, Dec(h, base), lastBase, fuel - 1,
                     Append(seq, Deref(h, Dec(h, base))))

\* crbegin() is reverse_iterator(cend()), crend() is reverse_iterator(cbegin())
ReverseTraversal(h, head) ==
    ReverseWalk(h, cend(h, head), cbegin(h, head), MaxElem + 1, <<>>)

Reverse(seq) == [k \in 1..Len(seq) |-> seq[Len(seq) + 1 - k]]

\* C12: in a tree built by inserts, the backward traversal from crbegin() to
\* crend() (-- from end() until begin() is reached) visits every element
\* once, in strictly decreasing order: it is the reverse of the forward
\* traversal.
C12_BackwardTraversal ==
    (status = "ok" /\ trees[1].maxNodeElems >= 1) =>
        LET fw == Traversal(heap, trees[1].head)
            bw == ReverseTraversal(heap, trees[1].head)
        IN  /\ bw.ok
            /\ bw.seq = Reverse(fw.seq)
            /\ Range(bw.seq) = inserted[1]

\* const_iterator find(const T& elem) const
constFind(h, head, elem) == ConstIter(find_(h, head, elem))

\* bool operator==(const BTreeIterator<T>& a, const BTreeIterator<const T>& b)
\* and operator!=: the mutable a is converted, then the member operator==
EqMutConst(a, b) == IterEq(ConstIter(a), b)
NeqMutConst(a, b) == ~EqMutConst(a, b)

\* a == b and a != b for a read-only a and a mutable b: the member operators
\* of BTreeIterator<const T>, their argument converted implicitly
EqConstMut(a, b) == IterEq(a, ConstIter(b))
NeqConstMut(a, b) == ~EqConstMut(a, b)

\* the mutable iterators a client of tree 1 can hold: begin(), end(),
\* find(e), and the iterator it has moved by ++ and --
Positions ==
    {begin_(heap, trees[1].head), end_(heap, trees[1].head)}
        \cup {find_(heap, trees[1].head, e) : e \in Elems}
        \cup (IF itTree = 1 THEN {it} ELSE {})

\* C13: the conversion of a mutable iterator to a read-only one keeps node,
\* index path and endParent, so a mutable and a read-only iterator for the
\* same position compare equal in both argument orders (end() == cend() and
\* cend() == end() are true, the != are false), and const find(e) is the
\* position of the mutable find(e).
C13_ConstConversion ==
    (status = "ok" /\ trees[1].maxNodeElems >= 1) =>
        LET head == trees[1].head IN
        /\ \A m \in Positions :
             LET c == ConstIter(m) IN
             /\ c.node = m.node /\ c.indices = m.indices
             /\ c.endParent = m.endParent
             /\ EqMutConst(m, c) /\ EqConstMut(c, m)
             /\ ~NeqMutConst(m, c) /\ ~NeqConstMut(c, m)
        /\ EqMutConst(end_(heap, head), cend(heap, head))
        /\ EqConstMut(cend(heap, head), end_(heap, head))
        /\ ~NeqMutConst(end_(heap, head), cend(heap, head))
        /\ ~NeqConstMut(cend(heap, head), end_(heap, head))
        /\ \A e \in Elems :
             LET m == find_(heap, head, e)
                 c == constFind(heap, head, e)
             IN  /\ c.node = m.node /\ c.indices = m.indices
                 /\ c.endParent = m.endParent
                 /\ EqMutConst(m, c) /\ EqConstMut(c, m)

C13_Witness ==
    /\ status = "ok" /\ op.name = "inc"
    /\ it.node = Null /\ it.endParent # Null /\ Len(it.indices) >= 2
    /\ inserted[1] # Elems
    /\ EqMutConst(it, cend(heap, trees[1].head))
    /\ EqConstMut(constFind(heap, trees[1].head, MaxOf(Elems \ inserted[1])), it)

\* C14: the end iterators of a non-empty tree and of its copy never compare
\* equal (== is false and != is true, in both orders, for the mutable and
\* the read-only variants): equality compares node identity.  Stated for
\* every pair of distinct non-empty trees, in every state after the copy.
C14_EndOfCopyDiffers ==
    status = "ok" =>
        \A t, u \in Trees :
            (t # u /\ Live(t) /\ Live(u)
               /\ trees[t].head # Null /\ trees[u].head # Null) =>
                /\ ~IterEq(end_(heap, trees[t].head), end_(heap, trees[u].head))
                /\ ~IterEq(cend(heap, trees[t].head), cend(heap, trees[u].head))
                /\ NeqMutConst(end_(heap, trees[t].head), cend(heap, trees[u].head))
                /\ NeqConstMut(cend(heap, trees[t].head), end_(heap, trees[u].head))

C14_Witness ==
    /\ status = "ok" /\ op.name \in {"copyConstruct", "copyAssign"}
    /\ op.tree # op.other
    /\ Depth2(heap, trees[op.other].head)
    /\ Dump(heap, trees[op.tree].head) = Dump(heap, trees[op.other].head)
    /\ end_(heap, trees[op.tree].head).indices = end_(heap, trees[op.other].head).indices

\* C15: two end() iterators obtained from the same empty tree compare equal,
\* and the end() iterators of two different empty trees compare unequal.
C15_EmptyTreeEnds ==
    status = "ok" =>
        \A t, u \in Trees :
            (Live(t) /\ Live(u) /\ trees[t].head = Null /\ trees[u].head = Null
               /\ trees[t].maxNodeElems >= 1 /\ trees[u].maxNodeElems >= 1) =>
                IF t = u
                THEN IterEq(end_(heap, trees[t].head), end_(heap, trees[t].head))
                ELSE ~IterEq(end_(heap, trees[t].head), end_(heap, trees[u].head))

\* the elements of the nodes of one level, left to right, and the present
\* children of those nodes, left to right
RECURSIVE LevelElems(_, _)
LevelElems(h, level) ==
    IF level = <<>> THEN <<>>
    ELSE h[Head(level)].elems \o LevelElems(h, Tail(level))

RECURSIVE NextLevel(_, _)
NextLevel(h, level) ==
    IF level = <<>> THEN <<>>
    ELSE SelectSeq(h[Head(level)].children, LAMBDA c : c # Null)
         \o NextLevel(h, Tail(level))

\* breadth-first order: the root's elements, then level by level
RECURSIVE LevelOrder(_, _)
LevelOrder(h, level) ==
    IF level = <<>> THEN <<>>
    ELSE LevelElems(h, level) \o LevelOrder(h, NextLevel(h, level))

\* the elements of seq with one Space between consecutive ones
Interleave(seq) ==
    IF seq = <<>> THEN <<>>
    ELSE [k \in 1..(2 * Len(seq) - 1) |->
            IF k % 2 = 1 THEN seq[(k + 1) \div 2] ELSE Space]

RECURSIVE SumLen(_, _)
SumLen(h, nodes) ==
    IF nodes = {} THEN 0
    ELSE LET n == CHOOSE x \in nodes : TRUE IN
         Len(h[n].elems) + SumLen(h, nodes \ {n})

\* the dump of tree t is its stored elements, each once, in breadth-first
\* order, one space between consecutive elements and none around them
DumpIsLevelOrder(t) ==
    LET head == trees[t].head
        bfs == LevelOrder(heap, IF head = Null THEN <<>> ELSE <<head>>)
    IN  /\ Dump(heap, head) = Interleave(bfs)
        /\ Len(bfs) = SumLen(heap, Owned(heap, head))
        /\ Range(bfs) = Stored(heap, head)

\* C16: the dump of any tree (of capacity >= 1) is its stored elements, each
\* once, in breadth-first order (the root's elements, then those of each
\* present child left to right, level by level), with exactly one space
\* between consecutive elements and nothing before the first or after the
\* last; the dump of an empty or moved-from tree is empty.
C16_Dump ==
    status = "ok" =>
        \A t \in Trees :
            (Live(t) /\ trees[t].maxNodeElems >= 1) =>
                /\ DumpIsLevelOrder(t)
                /\ trees[t].head = Null => Dump(heap, trees[t].head) = <<>>
                /\ (op.name \in {"moveConstruct", "moveAssign"}
                      /\ op.other = t /\ op.tree # t)
                     => Dump(heap, trees[t].head) = <<>>

\* every dump, of whatever tree, has the breadth-first format
AllDumpsLevelOrder ==
    status = "ok" => \A t \in Trees : Live(t) => DumpIsLevelOrder(t)

\* C17: a tree of capacity 0 is rejected at construction, so no tree whose
\* maxNodeElems is 0 is live and none ever receives an insert call.
C17_ZeroCapacityRejected ==
    /\ \A t \in Trees : Live(t) => trees[t].maxNodeElems >= 1
    /\ op.name = "insert" => trees[op.tree].maxNodeElems >= 1
    /\ status # "diverged"

\* C18: dereferencing an end iterator, ++ on an end iterator, and -- on
\* begin() (begin() == end() of an empty tree included) end in a defined
\* failure (an assertion or panic); none ends otherwise, yields an element or
\* leaves the client with another iterator.
C18_DefinedFailure ==
    [][(/\ trees[1].maxNodeElems >= 1
        /\ \/ Dereference /\ IterEq(it, end_(heap, trees[1].head))
           \/ Increment /\ IterEq(it, end_(heap, trees[1].head))
           \/ Decrement /\ IterEq(it, begin_(heap, trees[1].head)))
          => status' = "abort"]_vars

\* C19, as stated: in every state reachable by inserts, the children
\* sequence of every node is empty or has exactly elems.size() + 1 slots.
C19_ChildrenExact ==
    \A n \in DOMAIN heap :
        \/ heap[n].children = <<>>
        \/ Len(heap[n].children) = Len(heap[n].elems) + 1

\* C19, amended: in every state reachable by inserts, the children sequence
\* of every node has at most elems.size() + 1 slots; it may be non-empty and
\* shorter, since resize(i + 1) creates the slots up to the one needed only.
C19_ChildrenAtMost ==
    \A n \in DOMAIN heap :
        Len(heap[n].children) <= Len(heap[n].elems) + 1

C19_Witness ==
    /\ status = "ok" /\ op.name = "insert" /\ op.second
    /\ \E n \in DOMAIN heap :
         /\ heap[n].children # <<>>
         /\ Len(heap[n].children) < Len(heap[n].elems) + 1
         /\ heap[n].children[Len(heap[n].children)] = it.node

\* C20: in every tree reachable by the public operations (insert, copy
\* construction and assignment, move construction, move assignment between
\* trees of equal or different capacity), the elems of each node are strictly
\* increasing and every element of the subtree of a present children[i] is
\* greater than elems[i-1] (if i > 0) and less than elems[i] (if
\* i < elems.size()).
C20_SearchTreeOrder ==
    (status = "ok" /\ \A t \in Trees : Live(t) => trees[t].maxNodeElems >= 1) =>
        \A t \in Trees : \A n \in Owned(heap, trees[t].head) :
            /\ StrictlyIncreasing(heap[n].elems)
            /\ \A k \in 1..Len(heap[n].children) :
                 heap[n].children[k] # Null =>
                    \A x \in Stored(heap, heap[n].children[k]) :
                        /\ k > 1 => x > heap[n].elems[k - 1]
                        /\ k <= Len(heap[n].elems) => x < heap[n].elems[k]

\* the number of elements of elems that are less than e: the index of the
\* first element greater than an absent e in a sorted elems
CountLess(elems, e) == Cardinality({k \in 1..Len(elems) : elems[k] < e})

\* the index path a successful insert of e is to take below `node`: the
\* index chosen at every saturated node, then the index at which e is stored
\* in the first unsaturated node, which is a new child when no node on the
\* path is unsaturated
RECURSIVE RefPath(_, _, _, _)
RefPath(h, node, e, cap) ==
    IF node = Null THEN <<0>>
    ELSE LET i == CountLess(h[node].elems, e) IN
         IF Len(h[node].elems) < cap THEN <<i>>
         ELSE IF i < Len(h[node].children)
         THEN <<i>> \o RefPath(h, h[node].children[i + 1], e, cap)
         ELSE <<i, 0>>

\* the node reached from `node` by the child indices of path, Null if a
\* slot on the way is absent
RECURSIVE NodeAt(_, _, _)
NodeAt(h, node, path) ==
    IF path = <<>> \/ node = Null THEN node
    ELSE IF Head(path) >= Len(h[node].children) THEN Null
    ELSE NodeAt(h, h[node].children[Head(path) + 1], Tail(path))

\* C21: a successful insert(e) descends from the root choosing at each node
\* the index i of the first element greater than e (elems.size() if none);
\* it stores e at index i of the first node on that path with fewer than
\* maxNodeElems elements, and at every saturated node before it goes on
\* into children[i], creating that child, empty and with the current node as
\* its parent, if the slot is absent.
C21_InsertPlacement ==
    [][\A e \in Elems :
         (Insert(1, e) /\ trees[1].maxNodeElems >= 1 /\ op'.second) =>
            LET cap == trees[1].maxNodeElems
                path == RefPath(heap, trees[1].head, e, cap)
                old == NodeAt(heap, trees[1].head, Pop(path))
                new == NodeAt(heap', trees'[1].head, Pop(path))
                i == Top(path)
            IN  /\ status' = "ok"
                /\ it'.indices = path /\ it'.node = new /\ new # Null
                /\ heap'[new].elems[i + 1] = e
                \* every node on the way is saturated and keeps its elems
                /\ \A k \in 0..(Len(path) - 2) :
                     LET before == NodeAt(heap, trees[1].head, SubSeq(path, 1, k))
                         after == NodeAt(heap', trees'[1].head, SubSeq(path, 1, k))
                     IN  /\ before # Null /\ after # Null
                         /\ Len(heap[before].elems) = cap
                         /\ heap'[after].elems = heap[before].elems
                         /\ heap'[after].children[path[k + 1] + 1]
                              = NodeAt(heap', trees'[1].head, SubSeq(path, 1, k + 1))
                \* the node that receives e had room, or is the new child
                /\ IF old # Null
                   THEN /\ Len(heap[old].elems) < cap
                        /\ heap'[new].elems
                             = SubSeq(heap[old].elems, 1, i) \o <<e>>
                               \o SubSeq(heap[old].elems, i + 1, Len(heap[old].elems))
                        /\ Cardinality(DOMAIN heap') = Cardinality(DOMAIN heap)
                   ELSE /\ heap'[new].elems = <<e>>
                        /\ heap'[new].children = <<>>
                        /\ heap'[new].parent
                             = (IF Len(path) = 1 THEN Null
                                ELSE NodeAt(heap', trees'[1].head,
                                            SubSeq(path, 1, Len(path) - 2)))
                        /\ Cardinality(DOMAIN heap') = Cardinality(DOMAIN heap) + 1]_vars

C21_Witness ==
    /\ status = "ok" /\ op.name = "insert" /\ op.second
    /\ Len(it.indices) >= 3 /\ Top(it.indices) = 0
    /\ heap[it.node].elems = <<op.elem>>
    /\ heap[it.node].parent # Null
    /\ \E k \in 1..Len(it.indices) : it.indices[k] > 0

\* C22: in every tree reachable by inserts, copies and moves, the root has
\* no parent and every present child c = n.children[i] has n as its parent;
\* in particular every parent link of a copy points to a node of the copy,
\* never to a node of the original.
C22_ParentLinks ==
    status = "ok" =>
        \A t \in Trees :
            (Live(t) /\ trees[t].head # Null) =>
                /\ heap[trees[t].head].parent = Null
                /\ \A n \in Owned(heap, trees[t].head) :
                     /\ \A k \in 1..Len(heap[n].children) :
                          heap[n].children[k] # Null
                             => heap[heap[n].children[k]].parent = n
                     /\ heap[n].parent # Null
                          => heap[n].parent \in Owned(heap, trees[t].head)
                     /\ \A u \in Trees \ {t} :
                          heap[n].parent \notin Owned(heap, trees[u].head)

C22_Witness ==
    /\ status = "ok" /\ op.name = "copyAssign" /\ op.tree # op.other
    /\ Cardinality(Owned(heap, trees[op.tree].head)) = MaxElem
    /\ Cardinality(Owned(heap, trees[op.other].head)) = MaxElem
    /\ \E n \in Owned(heap, trees[op.tree].head) :
         /\ heap[n].parent # Null
         /\ heap[heap[n].parent].parent # Null

\* C23: in every tree reachable by the public operations (insert, copy, move
\* construction, move assignment), every node that has at least one child
\* slot holds exactly maxNodeElems elements of the tree that owns it: a node
\* with fewer than maxNodeElems elements never has children.
C23_ChildrenOnlyWhenFull ==
    (status = "ok" /\ \A t \in Trees : Live(t) => trees[t].maxNodeElems >= 1) =>
        \A t \in Trees : \A n \in Owned(heap, trees[t].head) :
            heap[n].children # <<>>
               => Len(heap[n].elems) = trees[t].maxNodeElems

\* the iterators reached from c by at most fuel moves of ++ and --, each
\* move taken only from a position of [begin(), end()] where it is allowed:
\* no ++ at end(), no -- at begin()
RECURSIVE Routes(_, _, _, _)
Routes(h, head, cs, fuel) ==
    IF fuel = 0 THEN cs
    ELSE LET nxt == {Inc(h, c) : c \in {x \in cs : ~IterEq(x, end_(h, head))}}
                    \cup {Dec(h, c) : c \in {x \in cs : ~IterEq(x, begin_(h, head))}}
             ok == {c \in nxt : ~IsUB(c)}
         IN  IF ok \subseteq cs THEN cs
             ELSE Routes(h, head, cs \cup ok, fuel - 1)

\* the child indices from the root to `node`, found through the parent links
RECURSIVE PathTo(_, _)
PathTo(h, node) ==
    IF h[node].parent = Null THEN <<>>
    ELSE LET p == h[node].parent
             k == CHOOSE j \in 1..Len(h[p].children) : h[p].children[j] = node
         IN  Append(PathTo(h, p), k - 1)

\* C24: an iterator obtained from begin(), end(), find() or insert() on a tree
\* built by inserts and moved by any sequence of ++ and -- within
\* [begin(), end()] has, while it references a node, the child indices from
\* the root to that node followed by a valid element index of the node as
\* its index stack, so an iterator at element e equals find(e) whatever the
\* route it was reached by.
C24_IndexPath ==
    (status = "ok" /\ trees[1].maxNodeElems >= 1) =>
        LET head == trees[1].head
            start == {begin_(heap, head), end_(heap, head)}
                        \cup {find_(heap, head, e) : e \in Elems}
        IN  \A c \in Routes(heap, head, start, 2 * MaxElem) :
                c.node # Null =>
                    /\ c.indices # <<>>
                    /\ Top(c.indices) < Len(heap[c.node].elems)
                    /\ Pop(c.indices) = PathTo(heap, c.node)
                    /\ IterEq(c, find_(heap, head, Deref(heap, c)))

\* C25: on a tree of capacity >= 1 reached by inserts, every call insert(e)
\* terminates; its loop visits each level of the tree at most once (after k
\* iterations it is at a node of depth k) and stops no later than in a child
\* it has just created empty.
C25_InsertTerminates ==
    /\ []((call.active /\ trees[1].maxNodeElems >= 1)
             => /\ status = "ok"
                /\ Len(call.indices) = Len(PathTo(heap, call.node))
                /\ call.indices = PathTo(heap, call.node))
    /\ [][(InsertStep /\ trees[1].maxNodeElems >= 1
             /\ heap[call.node].elems = <<>>) => ~call'.active]_vars
    /\ ((call.active /\ trees[1].maxNodeElems >= 1) ~> ~call.active)

C25_Witness ==
    /\ status = "ok" /\ ~call.active
    /\ op.name = "insert" /\ op.second
    /\ trees[1].maxNodeElems >= 1
    /\ Len(it.indices) >= 3
    /\ heap[it.node].elems = <<op.elem>>

\* the present children of a node that are nodes of heap h, in their order
OldChildren(h, children) ==
    SelectSeq(children, LAMBDA c : c # Null /\ c \in DOMAIN h)

\* C26: a successful insert changes the elems of exactly one node, by adding
\* the new element, creates at most one node, leaves no node with zero
\* elements, and leaves the elems, the parent and the relative order of the
\* children of every other node as they were; find, begin, end and the dump
\* never change the tree.
C26_InsertFrame ==
    [][/\ \A e \in Elems :
            (Insert(1, e) /\ trees[1].maxNodeElems >= 1 /\ op'.second) =>
               LET r == insert(heap, trees[1].head, trees[1].maxNodeElems, e)
                   created == DOMAIN r.heap \ DOMAIN heap
                   before(n) == IF n \in DOMAIN heap THEN heap[n].elems ELSE <<>>
                   changed == {n \in DOMAIN r.heap : r.heap[n].elems # before(n)}
               IN  /\ TreeShape(heap', trees'[1].head) = TreeShape(r.heap, r.head)
                   /\ DOMAIN heap \subseteq DOMAIN r.heap
                   /\ Cardinality(created) <= 1
                   /\ Cardinality(changed) = 1
                   /\ \A n \in changed :
                        /\ Len(r.heap[n].elems) = Len(before(n)) + 1
                        /\ SelectSeq(r.heap[n].elems, LAMBDA x : x # e) = before(n)
                        /\ e \notin Range(before(n))
                   /\ \A n \in DOMAIN r.heap : r.heap[n].elems # <<>>
                   /\ \A n \in DOMAIN heap :
                        /\ r.heap[n].parent = heap[n].parent
                        /\ OldChildren(heap, r.heap[n].children)
                             = OldChildren(heap, heap[n].children)
       /\ ((\E e \in Elems : Find(1, e)) \/ Begin(1) \/ End(1) \/ Output(1)) =>
              /\ heap' = heap /\ trees' = trees /\ inserted' = inserted
              /\ status' = "ok"]_vars

C26_Witness ==
    /\ status = "ok" /\ op.name = "insert" /\ op.second
    /\ Cardinality(DOMAIN heap) = 2
    /\ Cardinality(inserted[1]) = MaxElem
    /\ it.node # trees[1].head
    /\ heap[trees[1].head].children[Len(heap[trees[1].head].children)] = it.node

\* C27: in every tree reachable by inserts, the last slot of a non-empty
\* children sequence is a present child, so the descent of end_() through
\* children[elems.size()] and the rightmost descent of operator-- never
\* follow an absent child.
C27_LastSlotPresent ==
    (status = "ok" /\ ~call.active) =>
        /\ \A n \in DOMAIN heap :
             heap[n].children # <<>>
                => heap[n].children[Len(heap[n].children)] # Null
        /\ ~IsUB(end_(heap, trees[1].head))
        /\ \A e \in inserted[1] :
             LET c == find_(heap, trees[1].head, e) IN
             ~IterEq(c, begin_(heap, trees[1].head)) => ~IsUB(Dec(heap, c))

C27_Witness ==
    /\ status = "ok" /\ op.name = "end"
    /\ Len(it.indices) >= 3
    /\ \E n \in DOMAIN heap :
         /\ Len(heap[n].children) >= 2
         /\ heap[n].children[1] = Null
====
